---- MODULE Spec2Model ----
(***************************************************************************)
(* Model of libmolgrid's atom typers and type mappers (src/atom_typer.h). *)
(*                                                                         *)
(* Objects are records; every constructor and every query is one action   *)
(* that records the call it made in `call` and the constructor arguments  *)
(* in `ctor`.  Floats are modelled by integers (0.0 is 0, 1.0 is 1).       *)
(* Query results are records: Ok(v) for a returned value, Err(e) for a    *)
(* failure of kind e.                                                      *)
(***************************************************************************)
EXTENDS Integers, Sequences, FiniteSets, TLC

VARIABLES ctor, mapper, typer, call, pc, frame, typ

vars == <<ctor, mapper, typer, call, pc, frame, typ>>

(***************************************************************************)
(* Results, objects and integer conversions                                *)
(***************************************************************************)
Ok(v) == [ok |-> TRUE, val |-> v, err |-> "none"]

Err(e) == [ok |-> FALSE, val |-> <<>>, err |-> e]

NoObj == [kind |-> "none"]

NoCall == [op |-> "none", arg |-> <<>>, result |-> Ok(<<>>)]

NoFrame == [atom |-> <<>>, res_rad |-> <<>>, ret |-> 0]

Range(s) == {s[i] : i \in DOMAIN s}

\* A 32-bit unsigned value is the record of its two 16-bit halves,
\* value = hi * 65536 + lo.
\* conversion of an int argument to a 32-bit unsigned parameter (modulo 2^32)
ToUnsigned(i) ==
  IF i >= 0
    THEN [hi |-> i \div 65536, lo |-> i % 65536]
    ELSE LET j == (i + 2147483647) + 1
         IN [hi |-> (j \div 65536) + 32768, lo |-> j % 65536]

\* conversion of a 32-bit unsigned value to a 32-bit int (two's complement)
ToInt(u) ==
  IF u.hi < 32768
    THEN u.hi * 65536 + u.lo
    ELSE (((u.hi - 32768) * 65536 + u.lo) - 2147483647) - 1

\* unsigned comparison u < n for an unsigned u and a size n < 65536
ULess(u, n) == u.hi = 0 /\ u.lo < n

\* map insertion m[k] = v of std::unordered_map
Put(m, k, v) == [x \in (DOMAIN m) \cup {k} |-> IF x = k THEN v ELSE m[x]]

EmptyMap == [x \in {} |-> 0]

(***************************************************************************)
(* Bounds                                                                  *)
(***************************************************************************)
MaxOrigId == 3

MaxListLen == 3

MaxGroups == 2

OrigIds == 0..MaxOrigId

QueryIds == 0..(MaxOrigId + 1)

SeqsUpTo(S, n) == UNION {[1..k -> S] : k \in 0..n}

Bools == {TRUE, FALSE}

RECURSIVE SortedSeq(_)
\* the elements of a set of ids as a vector, in ascending order
SortedSeq(S) ==
  IF S = {} THEN <<>>
  ELSE LET m == CHOOSE x \in S : \A y \in S : x <= y
       IN <<m>> \o SortedSeq(S \ {m})

\* the groups of a grouped subset map
Groups == {SortedSeq(S) : S \in SUBSET OrigIds}

(***************************************************************************)
(* SubsetAtomMapper                                                        *)
(***************************************************************************)
\* unsigned num_new_types = 0
SubsetNumNewTypesInit == 0

SubsetDefaultTypeWrong == SubsetNumNewTypesInit

\* int default_type = -1
SubsetDefaultType == -1

RECURSIVE FlatInsert(_, _, _)
\* old2new[map[i]] = i for i = 0 .. n-1, in order (i is 1-based here)
FlatInsert(m, map, i) ==
  IF i > Len(map) THEN m ELSE FlatInsert(Put(m, map[i], i - 1), map, i + 1)

RECURSIVE GroupInsert(_, _, _, _)
\* every id of group (i-1) is assigned new type i-1; groups in order
GroupInsert(m, map, i, j) ==
  IF i > Len(map) THEN m
  ELSE IF j > Len(map[i]) THEN GroupInsert(m, map, i + 1, 1)
  ELSE GroupInsert(Put(m, map[i][j], i - 1), map, i, j + 1)

SubsetCatchall(m, n, include_catchall) ==
  IF include_catchall
    THEN [m EXCEPT !.default_type = n, !.num_new_types = n + 1]
    ELSE [m EXCEPT !.num_new_types = n]

SubsetBlank ==
  [kind |-> "subset", old2new |-> EmptyMap,
   default_type |-> SubsetDefaultType, num_new_types |-> SubsetNumNewTypesInit]

SubsetAtomMapperFlat(map, include_catchall) ==
  SubsetCatchall([SubsetBlank EXCEPT !.old2new = FlatInsert(EmptyMap, map, 1)],
                 Len(map), include_catchall)

SubsetAtomMapperGrouped(map, include_catchall) ==
  SubsetCatchall([SubsetBlank EXCEPT !.old2new = GroupInsert(EmptyMap, map, 1, 1)],
                 Len(map), include_catchall)

\* origt is unsigned; the keys of old2new are ints
SubsetGetType(m, origt) ==
  IF ToInt(origt) \in DOMAIN m.old2new THEN m.old2new[ToInt(origt)] ELSE m.default_type

SubsetNumTypesWrong(m) == Cardinality(DOMAIN m.old2new)

\* virtual unsigned num_types() const { return num_new_types; }
SubsetNumTypes(m) == m.num_new_types

(***************************************************************************)
(* Specification of the subset mapper                                      *)
(***************************************************************************)
Init ==
  /\ ctor = NoCall
  /\ mapper = NoObj
  /\ typer = NoObj
  /\ call = NoCall
  /\ pc = "idle"
  /\ frame = NoFrame
  /\ typ = <<>>

\* the caller takes the result of the call; its vector goes out of scope
Return ==
  /\ call # NoCall
  /\ call' = NoCall
  /\ typ' = <<>>
  /\ UNCHANGED <<ctor, mapper, typer, pc, frame>>

NewSubsetFlat ==
  /\ mapper = NoObj
  /\ \E map \in SeqsUpTo(OrigIds, MaxListLen), c \in Bools :
       /\ mapper' = SubsetAtomMapperFlat(map, c)
       /\ ctor' = [op |-> "subset_flat", arg |-> [map |-> map, catchall |-> c],
                   result |-> Ok(<<>>)]
  /\ UNCHANGED <<typer, call, pc, frame, typ>>

NewSubsetGrouped ==
  /\ mapper = NoObj
  /\ \E map \in SeqsUpTo(Groups, MaxGroups), c \in Bools :
       /\ mapper' = SubsetAtomMapperGrouped(map, c)
       /\ ctor' = [op |-> "subset_grouped", arg |-> [map |-> map, catchall |-> c],
                   result |-> Ok(<<>>)]
  /\ UNCHANGED <<typer, call, pc, frame, typ>>

SubsetGetTypeCall ==
  /\ call = NoCall
  /\ mapper.kind = "subset"
  /\ \E x \in QueryIds :
       call' = [op |-> "get_type", arg |-> x, result |-> Ok(SubsetGetType(mapper, ToUnsigned(x)))]
  /\ UNCHANGED <<ctor, mapper, typer, pc, frame, typ>>

SubsetNumTypesCall ==
  /\ call = NoCall
  /\ mapper.kind = "subset"
  /\ call' = [op |-> "num_types", arg |-> <<>>, result |-> Ok(SubsetNumTypes(mapper))]
  /\ UNCHANGED <<ctor, mapper, typer, pc, frame, typ>>

NextSubset ==
  \/ Return
  \/ NewSubsetFlat
  \/ NewSubsetGrouped
  \/ SubsetGetTypeCall
  \/ SubsetNumTypesCall

SpecSubset == Init /\ [][NextSubset]_vars

(***************************************************************************)
(* Claims about the subset mapper                                          *)
(***************************************************************************)
Extra(c) == IF c THEN 1 ELSE 0

\* C2: a flat SubsetAtomMapper built from the list L maps every listed id x
\* to a position of x in L, every unlisted id to len(L) with catch-all and
\* to -1 without; num_types() is len(L)+1 with catch-all and len(L) without;
\* L = [0..n-1] without catch-all is the identity on [0,n).
C2_FlatSubset ==
  ctor.op = "subset_flat" =>
    LET L == ctor.arg.map
        c == ctor.arg.catchall
    IN /\ call.op = "get_type" =>
            LET x == call.arg
                r == call.result.val
            IN /\ call.result.ok
               /\ x \in Range(L) => (r \in 0..(Len(L) - 1) /\ L[r + 1] = x)
               /\ x \notin Range(L) => r = (IF c THEN Len(L) ELSE -1)
               /\ (~c /\ L = [i \in 1..Len(L) |-> i - 1] /\ x < Len(L)) => r = x
       /\ call.op = "num_types" =>
            call.result.val = Len(L) + Extra(c)

C2_Witness ==
  /\ ctor.op = "subset_flat"
  /\ ctor.arg.map = <<2, 1>>
  /\ ctor.arg.catchall
  /\ call.op = "get_type"
  /\ call.arg = 3
  /\ call.result.val = 2

\* C9: a grouped SubsetAtomMapper built from the groups G accepts overlapping
\* groups; every id x of some group maps to the largest i with x in G[i];
\* ids of no group map to len(G) with catch-all and to -1 without.
C9_GroupedSubset ==
  ctor.op = "subset_grouped" =>
    LET G == ctor.arg.map
        c == ctor.arg.catchall
        In(x) == {i \in 1..Len(G) : x \in Range(G[i])}
    IN /\ ctor.result.ok
       /\ mapper.kind = "subset"
       /\ call.op = "get_type" =>
            LET x == call.arg
                r == call.result.val
            IN /\ call.result.ok
               /\ In(x) # {} => (r + 1 \in In(x) /\ \A i \in In(x) : i <= r + 1)
               /\ In(x) = {} => r = (IF c THEN Len(G) ELSE -1)

C9_Witness ==
  /\ ctor.op = "subset_grouped"
  /\ ctor.arg.map = <<<<1, 2>>, <<2, 3>>>>
  /\ call.op = "get_type"
  /\ call.arg = 2
  /\ call.result.val = 1

(***************************************************************************)
(* FileAtomMapper                                                          *)
(***************************************************************************)
MaxTextLen == 5

MaxQuery == 3

\* characters of a mapping source; a name is a sequence of characters
Alphabet == {"a", "b", " ", "\n"}

NameA == <<"a">>

NameB == <<"b">>

NameAB == <<"a", "b">>

\* original-name lists the mapper is constructed with (no repeated names)
NameLists == {<<NameA, NameB>>, <<NameB, NameA, NameAB>>, <<NameA>>, <<>>}

RECURSIVE SplitFrom(_, _, _, _)
\* the pieces of s between occurrences of sep, empty pieces included
SplitFrom(s, sep, i, cur) ==
  IF i > Len(s) THEN <<cur>>
  ELSE IF s[i] = sep THEN <<cur>> \o SplitFrom(s, sep, i + 1, <<>>)
  ELSE SplitFrom(s, sep, i + 1, Append(cur, s[i]))

NonEmpty(t) == t # <<>>

\* the lines getline yields: a final piece after the last newline only if non-empty
GetLines(text) ==
  LET pieces == SplitFrom(text, "\n", 1, <<>>)
  IN IF pieces[Len(pieces)] = <<>> THEN SubSeq(pieces, 1, Len(pieces) - 1) ELSE pieces

\* the whitespace-separated names of one line
Tokens(line) == SelectSeq(SplitFrom(line, " ", 1, <<>>), NonEmpty)

KnownName(names, tok) == \E i \in DOMAIN names : names[i] = tok

RECURSIVE AssignLine(_, _, _, _, _)
\* every original type named on the line gets the new index ntype
AssignLine(names, o2n, toks, k, ntype) ==
  IF k > Len(toks) THEN o2n
  ELSE AssignLine(names,
                  [i \in DOMAIN o2n |-> IF names[i] = toks[k] THEN ntype ELSE o2n[i]],
                  toks, k + 1, ntype)

RECURSIVE SetupLines(_, _, _)
\* one step per line; m.failed is set by a name outside old_type_names
SetupLines(m, lines, n) ==
  IF n > Len(lines) \/ m.failed THEN m
  ELSE LET toks == Tokens(lines[n])
       IN IF toks = <<>> THEN SetupLines(m, lines, n + 1)
          ELSE IF \E k \in DOMAIN toks : ~KnownName(m.old_type_names, toks[k])
            THEN [m EXCEPT !.failed = TRUE]
            ELSE SetupLines(
                   [m EXCEPT !.old_type_to_new_type =
                               AssignLine(m.old_type_names, @, toks, 1, Len(m.new_type_names)),
                             !.new_type_names = Append(@, toks)],
                   lines, n + 1)

RECURSIVE SetupLinesLenient(_, _, _)
\* as SetupLines, with names outside old_type_names skipped
SetupLinesLenient(m, lines, n) ==
  IF n > Len(lines) THEN m
  ELSE LET known(t) == KnownName(m.old_type_names, t)
           toks == SelectSeq(Tokens(lines[n]), known)
       IN IF toks = <<>> THEN SetupLinesLenient(m, lines, n + 1)
          ELSE SetupLinesLenient(
                 [m EXCEPT !.old_type_to_new_type =
                             AssignLine(m.old_type_names, @, toks, 1, Len(m.new_type_names)),
                           !.new_type_names = Append(@, toks)],
                 lines, n + 1)

SetupLenient(m, in) ==
  SetupLinesLenient([m EXCEPT !.old_type_to_new_type = [i \in DOMAIN m.old_type_names |-> -1],
                              !.new_type_names = <<>>],
                    GetLines(in), 1)

\* void setup(std::istream& in)
Setup(m, in) ==
  SetupLines([m EXCEPT !.old_type_to_new_type = [i \in DOMAIN m.old_type_names |-> -1],
                       !.new_type_names = <<>>],
             GetLines(in), 1)

\* FileAtomMapper(std::istream& in, const std::vector<std::string>& type_names)
FileAtomMapper(in, type_names) ==
  Setup([kind |-> "file", old_type_names |-> type_names,
         old_type_to_new_type |-> <<>>, new_type_names |-> <<>>, failed |-> FALSE], in)

FileNumTypesWrong(m) == Len(m.old_type_names)

\* virtual unsigned num_types() const { return new_type_names.size(); }
FileNumTypes(m) == Len(m.new_type_names)

\* virtual std::vector<std::string> get_type_names() const { return new_type_names; }
FileGetTypeNames(m) == m.new_type_names

\* virtual int get_type(unsigned origt) const
FileGetType(m, origt) ==
  IF ULess(origt, Len(m.old_type_to_new_type))
    THEN Ok(m.old_type_to_new_type[origt.lo + 1])
    ELSE Err("IndexOutOfRange")

(***************************************************************************)
(* Specification of the file-driven mapper                                 *)
(***************************************************************************)
NewFileMapper ==
  /\ ctor = NoCall
  /\ \E in \in SeqsUpTo(Alphabet, MaxTextLen), names \in NameLists :
       LET m == FileAtomMapper(in, names)
       IN /\ mapper' = IF m.failed THEN NoObj ELSE m
          /\ ctor' = [op |-> "file", arg |-> [in |-> in, type_names |-> names],
                      result |-> IF m.failed THEN Err("UnknownTypeName") ELSE Ok(<<>>)]
  /\ UNCHANGED <<typer, call, pc, frame, typ>>

FileGetTypeCall ==
  /\ call = NoCall
  /\ mapper.kind = "file"
  /\ \E x \in 0..MaxQuery :
       call' = [op |-> "get_type", arg |-> x, result |-> FileGetType(mapper, ToUnsigned(x))]
  /\ UNCHANGED <<ctor, mapper, typer, pc, frame, typ>>

FileNumTypesCall ==
  /\ call = NoCall
  /\ mapper.kind = "file"
  /\ call' = [op |-> "num_types", arg |-> <<>>, result |-> Ok(FileNumTypes(mapper))]
  /\ UNCHANGED <<ctor, mapper, typer, pc, frame, typ>>

FileGetTypeNamesCall ==
  /\ call = NoCall
  /\ mapper.kind = "file"
  /\ call' = [op |-> "get_type_names", arg |-> <<>>, result |-> Ok(FileGetTypeNames(mapper))]
  /\ UNCHANGED <<ctor, mapper, typer, pc, frame, typ>>

NextFile ==
  \/ Return
  \/ NewFileMapper
  \/ FileGetTypeCall
  \/ FileNumTypesCall
  \/ FileGetTypeNamesCall

SpecFile == Init /\ [][NextFile]_vars

(***************************************************************************)
(* Claims about the file-driven mapper                                     *)
(***************************************************************************)
\* the names listed on each non-empty line, in file order
NamedLines(in) == SelectSeq([n \in DOMAIN GetLines(in) |-> Tokens(GetLines(in)[n])], NonEmpty)

\* C3: each non-empty line defines one new category, numbered from 0 in file
\* order, blank lines not counted; get_type(i) is the index of a line naming
\* old_type_names[i] and -1 when no line names it; num_types() and the length
\* of get_type_names() are the number of non-empty lines.
C3_FileMapper ==
  (ctor.op = "file" /\ ctor.result.ok) =>
    LET NL == NamedLines(ctor.arg.in)
        names == ctor.arg.type_names
    IN /\ call.op = "num_types" => call.result.val = Len(NL)
       /\ call.op = "get_type_names" => Len(call.result.val) = Len(NL)
       /\ (call.op = "get_type" /\ call.arg < Len(names)) =>
            LET nm == names[call.arg + 1]
                r == call.result.val
            IN /\ call.result.ok
               /\ (\A j \in DOMAIN NL : nm \notin Range(NL[j])) => r = -1
               /\ (\E j \in DOMAIN NL : nm \in Range(NL[j])) =>
                    (r \in 0..(Len(NL) - 1) /\ nm \in Range(NL[r + 1]))

C3_Witness ==
  /\ ctor.op = "file"
  /\ ctor.result.ok
  /\ ctor.arg.in = <<"a", "\n", "\n", "b">>
  /\ ctor.arg.type_names = <<NameA, NameB>>
  /\ call.op = "get_type"
  /\ call.arg = 1
  /\ call.result.val = 1

UnknownTokens(in, names) ==
  {tok \in UNION {Range(Tokens(GetLines(in)[n])) : n \in DOMAIN GetLines(in)} :
     tok \notin Range(names)}

\* C4: construction fails with UnknownTypeName whenever a line contains a
\* token outside the original-name list, and leaves no mapper behind.
C4_UnknownTypeName ==
  (ctor.op = "file" /\ UnknownTokens(ctor.arg.in, ctor.arg.type_names) # {}) =>
    /\ ~ctor.result.ok
    /\ ctor.result.err = "UnknownTypeName"
    /\ mapper = NoObj

C4_Witness ==
  /\ ctor.op = "file"
  /\ ctor.arg.in = <<"a", "\n", "a", "b">>
  /\ ctor.arg.type_names = <<NameA, NameB>>
  /\ ~ctor.result.ok

(***************************************************************************)
(* Atoms (the properties consumed from the external molecular structure)   *)
(***************************************************************************)
MaxZ == 90

MaxCutoff == 3

Atom(z, ar, don, acc, het, hd, q) ==
  [z |-> z, aromatic |-> ar, donor |-> don, acceptor |-> acc,
   heteroBonded |-> het, donorBonded |-> hd, charge |-> q]

\* atoms that differ in atomic number only
PlainAtom(z) == Atom(z, FALSE, FALSE, FALSE, FALSE, FALSE, 0)

\* covalent radius of the external per-element radius table (hundredths)
CovalentRad(z) == 30 + z

(***************************************************************************)
(* ElementIndexTyper                                                       *)
(***************************************************************************)
\* unsigned maxe = 84
DefaultMaxe == 84

ElementIndexTyperOffByOne(maxe) == [kind |-> "element", last_elem |-> maxe + 1]

\* ElementIndexTyper(unsigned maxe = 84): last_elem(maxe) {}
ElementIndexTyper(maxe) == [kind |-> "element", last_elem |-> maxe]

ElementNumTypes(t) == t.last_elem

\* the type id is the atomic number; any element with atomic number greater
\* than or equal to the specified max is assigned type zero
ElementGetType(t, a) ==
  LET elem == IF a.z >= t.last_elem THEN 0 ELSE a.z
  IN Ok(<<elem, CovalentRad(elem)>>)

NewElementTyper ==
  /\ typer = NoObj
  /\ \E maxe \in 0..MaxCutoff :
       /\ typer' = ElementIndexTyper(maxe)
       /\ ctor' = [op |-> "element", arg |-> maxe, result |-> Ok(<<>>)]
  /\ UNCHANGED <<mapper, call, pc, frame, typ>>

NewElementTyperDefault ==
  /\ typer = NoObj
  /\ typer' = ElementIndexTyper(DefaultMaxe)
  /\ ctor' = [op |-> "element_default", arg |-> <<>>, result |-> Ok(<<>>)]
  /\ UNCHANGED <<mapper, call, pc, frame, typ>>

ElementGetTypeCall ==
  /\ call = NoCall
  /\ typer.kind = "element"
  /\ \E z \in 0..MaxZ :
       call' = [op |-> "get_type", arg |-> PlainAtom(z),
                result |-> ElementGetType(typer, PlainAtom(z))]
  /\ UNCHANGED <<ctor, mapper, typer, pc, frame, typ>>

ElementNumTypesCall ==
  /\ call = NoCall
  /\ typer.kind = "element"
  /\ call' = [op |-> "num_types", arg |-> <<>>, result |-> Ok(ElementNumTypes(typer))]
  /\ UNCHANGED <<ctor, mapper, typer, pc, frame, typ>>

NextElement ==
  \/ Return
  \/ NewElementTyper
  \/ NewElementTyperDefault
  \/ ElementGetTypeCall
  \/ ElementNumTypesCall

SpecElement == Init /\ [][NextElement]_vars

(***************************************************************************)
(* Claims about the atomic-number classifier                               *)
(***************************************************************************)
\* the cutoff the typer was constructed with
CutoffOf(c) == IF c.op = "element_default" THEN 84 ELSE c.arg

ElementConstructed == ctor.op \in {"element", "element_default"}

\* C5 as stated: category z below the cutoff, category 0 from the cutoff on,
\* num_types() is the cutoff, and every returned category lies in
\* [0, num_types()).
C5_Original ==
  ElementConstructed =>
    /\ call.op = "get_type" =>
         /\ call.result.ok
         /\ call.arg.z < CutoffOf(ctor) => call.result.val[1] = call.arg.z
         /\ call.arg.z >= CutoffOf(ctor) => call.result.val[1] = 0
         /\ call.result.val[1] \in 0..(ElementNumTypes(typer) - 1)
    /\ call.op = "num_types" => call.result.val = CutoffOf(ctor)

\* C5 amended: category z below the cutoff, category 0 from the cutoff on,
\* num_types() is the cutoff; the returned category lies in [0, num_types())
\* whenever the cutoff is at least 1.
C5_ElementTyper ==
  ElementConstructed =>
    /\ call.op = "get_type" =>
         /\ call.result.ok
         /\ call.arg.z < CutoffOf(ctor) => call.result.val[1] = call.arg.z
         /\ call.arg.z >= CutoffOf(ctor) => call.result.val[1] = 0
         /\ CutoffOf(ctor) >= 1 => call.result.val[1] \in 0..(ElementNumTypes(typer) - 1)
    /\ call.op = "num_types" => call.result.val = CutoffOf(ctor)

C5_Witness ==
  /\ ctor.op = "element_default"
  /\ call.op = "get_type"
  /\ call.arg.z = 84
  /\ call.result.val[1] = 0

(***************************************************************************)
(* GninaIndexTyper                                                         *)
(***************************************************************************)
\* enum type
GninaType ==
  [Hydrogen |-> 0, PolarHydrogen |-> 1,
   AliphaticCarbonXSHydrophobe |-> 2, AliphaticCarbonXSNonHydrophobe |-> 3,
   AromaticCarbonXSHydrophobe |-> 4, AromaticCarbonXSNonHydrophobe |-> 5,
   Nitrogen |-> 6, NitrogenXSDonor |-> 7, NitrogenXSDonorAcceptor |-> 8,
   NitrogenXSAcceptor |-> 9,
   Oxygen |-> 10, OxygenXSDonor |-> 11, OxygenXSDonorAcceptor |-> 12,
   OxygenXSAcceptor |-> 13,
   Sulfur |-> 14, SulfurAcceptor |-> 15, Phosphorus |-> 16,
   Fluorine |-> 17, Chlorine |-> 18, Bromine |-> 19, Iodine |-> 20,
   Magnesium |-> 21, Manganese |-> 22, Zinc |-> 23, Calcium |-> 24, Iron |-> 25,
   GenericMetal |-> 26, Boron |-> 27, NumTypes |-> 28]

\* atomic numbers of the elements the enum enumerates individually
\* (H, B, C, N, O, F, Mg, P, S, Cl, Ca, Mn, Fe, Zn, Br, I)
EnumeratedZ == {1, 5, 6, 7, 8, 9, 12, 15, 16, 17, 20, 25, 26, 30, 35, 53}

\* metallic elements among the sampled ones (Na, Mg, Ca, Mn, Fe, Cu, Zn)
MetalZ == {11, 12, 20, 25, 26, 29, 30}

IsMetal(z) == z \in MetalZ

\* sampled elements: the enumerated ones, two other metals (Na, Cu) and
\* three non-metals without a category (He, Ne, Se)
SampleZ == EnumeratedZ \cup {2, 10, 11, 29, 34}

\* struct info, one table row; k distinguishes tables
InfoRow(id, k) ==
  [sm |-> id,
   ad_depth |-> (id + k) % 3, ad_solvation |-> (id % 2) + 2 * k, ad_volume |-> id + 1,
   covalent_radius |-> 100 + 2 * id + k, xs_radius |-> 200 + 3 * id + k,
   xs_hydrophobe |-> id \in {2, 4, 17, 18, 19, 20},
   xs_donor |-> id \in {7, 8, 11, 12, 21, 22, 23, 24, 25, 26},
   xs_acceptor |-> id \in {8, 9, 12, 13},
   ad_heteroatom |-> id > 5]

\* static const info default_data[NumTypes]
DefaultData == [id \in 0..(GninaType.NumTypes - 1) |-> InfoRow(id, 0)]

\* a caller-supplied table
OtherData == [id \in 0..(GninaType.NumTypes - 1) |-> InfoRow(id, 1)]

Tables == {DefaultData, OtherData}

GninaIndexTyperIgnoreUsec(usec, d) == [kind |-> "gnina", use_covalent |-> FALSE, data |-> d]

\* GninaIndexTyper(bool usec = false, const info *d = default_data)
GninaIndexTyper(usec, d) == [kind |-> "gnina", use_covalent |-> usec, data |-> d]

GninaNumTypes(t) == GninaType.NumTypes

\* donor/acceptor refinement of nitrogen and oxygen
DonAcc(a, plain, don, donacc, acc) ==
  IF a.donor /\ a.acceptor THEN donacc
  ELSE IF a.donor THEN don
  ELSE IF a.acceptor THEN acc
  ELSE plain

\* the category of an atom, NumTypes when the element has none
GninaCategory(a) ==
  LET T == GninaType
  IN CASE a.z = 1 -> IF a.donorBonded THEN T.PolarHydrogen ELSE T.Hydrogen
       [] a.z = 6 -> IF a.aromatic
                       THEN IF a.heteroBonded THEN T.AromaticCarbonXSNonHydrophobe
                                              ELSE T.AromaticCarbonXSHydrophobe
                       ELSE IF a.heteroBonded THEN T.AliphaticCarbonXSNonHydrophobe
                                              ELSE T.AliphaticCarbonXSHydrophobe
       [] a.z = 7 -> DonAcc(a, T.Nitrogen, T.NitrogenXSDonor,
                            T.NitrogenXSDonorAcceptor, T.NitrogenXSAcceptor)
       [] a.z = 8 -> DonAcc(a, T.Oxygen, T.OxygenXSDonor,
                            T.OxygenXSDonorAcceptor, T.OxygenXSAcceptor)
       [] a.z = 16 -> IF a.acceptor THEN T.SulfurAcceptor ELSE T.Sulfur
       [] a.z = 15 -> T.Phosphorus
       [] a.z = 9 -> T.Fluorine
       [] a.z = 17 -> T.Chlorine
       [] a.z = 35 -> T.Bromine
       [] a.z = 53 -> T.Iodine
       [] a.z = 12 -> T.Magnesium
       [] a.z = 25 -> T.Manganese
       [] a.z = 30 -> T.Zinc
       [] a.z = 20 -> T.Calcium
       [] a.z = 26 -> T.Iron
       [] a.z = 5 -> T.Boron
       [] OTHER -> IF IsMetal(a.z) THEN T.GenericMetal ELSE T.NumTypes

\* virtual std::pair<int,float> get_type(OpenBabel::OBAtom& a) const
GninaGetType(t, a) ==
  LET id == GninaCategory(a)
  IN IF id = GninaType.NumTypes THEN Err("UnrecognizedElement")
     ELSE Ok(<<id, IF t.use_covalent THEN t.data[id].covalent_radius
                                     ELSE t.data[id].xs_radius>>)

\* what a read of data[t] outside the table can produce
OutOfBoundsReads == {Err("crash"), Ok(InfoRow(0, 2)), Ok(InfoRow(27, 3))}

\* const info& get_info(int t) const { return data[t]; }
GetInfoOutcomes(t, i) ==
  IF i \in DOMAIN t.data THEN {Ok(t.data[i])} ELSE OutOfBoundsReads

GninaAtoms ==
  {Atom(z, ar, don, acc, het, hd, q) :
     z \in SampleZ, ar \in Bools, don \in Bools, acc \in Bools,
     het \in Bools, hd \in Bools, q \in {0, 1}}

NewGninaTyper ==
  /\ typer = NoObj
  /\ \E usec \in Bools, d \in Tables :
       /\ typer' = GninaIndexTyper(usec, d)
       /\ ctor' = [op |-> "gnina", arg |-> [usec |-> usec, d |-> d], result |-> Ok(<<>>)]
  /\ UNCHANGED <<mapper, call, pc, frame, typ>>

GninaGetTypeCall ==
  /\ call = NoCall
  /\ typer.kind = "gnina"
  /\ \E a \in GninaAtoms :
       call' = [op |-> "get_type", arg |-> a, result |-> GninaGetType(typer, a)]
  /\ UNCHANGED <<ctor, mapper, typer, pc, frame, typ>>

GninaNumTypesCall ==
  /\ call = NoCall
  /\ typer.kind = "gnina"
  /\ call' = [op |-> "num_types", arg |-> <<>>, result |-> Ok(GninaNumTypes(typer))]
  /\ UNCHANGED <<ctor, mapper, typer, pc, frame, typ>>

GetInfoCall ==
  /\ call = NoCall
  /\ typer.kind = "gnina"
  /\ \E i \in (-2)..(GninaType.NumTypes + 1) :
       \E r \in GetInfoOutcomes(typer, i) :
         call' = [op |-> "get_info", arg |-> i, result |-> r]
  /\ UNCHANGED <<ctor, mapper, typer, pc, frame, typ>>

NextGnina ==
  \/ Return
  \/ NewGninaTyper
  \/ GninaGetTypeCall
  \/ GninaNumTypesCall
  \/ GetInfoCall

SpecGnina == Init /\ [][NextGnina]_vars

(***************************************************************************)
(* Claims about the rule-based classifier                                  *)
(***************************************************************************)
\* C7: get_type fails with UnrecognizedElement exactly when the element is
\* neither enumerated nor metallic; otherwise it returns (id, radius) with id
\* in [0, num_types()) and radius the id's covalent_radius when usec is true
\* and xs_radius when usec is false; a metal that is not enumerated yields
\* GenericMetal.
C7_GninaGetType ==
  (ctor.op = "gnina" /\ call.op = "get_type") =>
    LET a == call.arg
        r == call.result
        unknown == a.z \notin EnumeratedZ /\ a.z \notin MetalZ
    IN /\ unknown => (~r.ok /\ r.err = "UnrecognizedElement")
       /\ ~unknown =>
            /\ r.ok
            /\ r.val[1] \in 0..(GninaNumTypes(typer) - 1)
            /\ r.val[2] = IF ctor.arg.usec THEN ctor.arg.d[r.val[1]].covalent_radius
                                           ELSE ctor.arg.d[r.val[1]].xs_radius
            /\ (a.z \in MetalZ \ EnumeratedZ) => r.val[1] = 26

C7_Witness ==
  /\ ctor.op = "gnina"
  /\ ctor.arg.usec
  /\ call.op = "get_type"
  /\ call.arg.z = 29
  /\ call.result.ok
  /\ call.result.val = <<26, ctor.arg.d[26].covalent_radius>>

(***************************************************************************)
(* GninaVectorTyper                                                        *)
(***************************************************************************)
MaxInLen == 2

VTypeShort ==
  [Hydrogen |-> 0, Carbon |-> 1, Nitrogen |-> 2, Oxygen |-> 3, Sulfur |-> 4,
   Phosphorus |-> 5, Fluorine |-> 6, Chlorine |-> 7, Bromine |-> 8, Iodine |-> 9,
   Magnesium |-> 10, Manganese |-> 11, Zinc |-> 12, Calcium |-> 13, Iron |-> 14,
   Boron |-> 15, GenericAtom |-> 15, AD_depth |-> 16, AD_solvation |-> 17,
   AD_volume |-> 18, XS_hydrophobe |-> 19, XS_donor |-> 20, XS_acceptor |-> 21,
   AD_heteroatom |-> 22, OB_partialcharge |-> 23, NumTypes |-> 24]

\* enum vtype
VType ==
  [Hydrogen |-> 0, Carbon |-> 1, Nitrogen |-> 2, Oxygen |-> 3, Sulfur |-> 4,
   Phosphorus |-> 5, Fluorine |-> 6, Chlorine |-> 7, Bromine |-> 8, Iodine |-> 9,
   Magnesium |-> 10, Manganese |-> 11, Zinc |-> 12, Calcium |-> 13, Iron |-> 14,
   Boron |-> 15, GenericAtom |-> 16, AD_depth |-> 17, AD_solvation |-> 18,
   AD_volume |-> 19, XS_hydrophobe |-> 20, XS_donor |-> 21, XS_acceptor |-> 22,
   AD_heteroatom |-> 23, OB_partialcharge |-> 24, NumTypes |-> 25]

\* GninaVectorTyper(const GninaIndexTyper& ityp = GninaIndexTyper()): ityper(ityp) {}
GninaVectorTyper(ityp) == [kind |-> "vector", ityper |-> ityp]

VectorNumTypes(t) == VType.NumTypes

\* the element bucket of a category id
ElementBucket(id) ==
  LET T == GninaType
      V == VType
  IN CASE id \in {T.Hydrogen, T.PolarHydrogen} -> V.Hydrogen
       [] id \in T.AliphaticCarbonXSHydrophobe..T.AromaticCarbonXSNonHydrophobe -> V.Carbon
       [] id \in T.Nitrogen..T.NitrogenXSAcceptor -> V.Nitrogen
       [] id \in T.Oxygen..T.OxygenXSAcceptor -> V.Oxygen
       [] id \in {T.Sulfur, T.SulfurAcceptor} -> V.Sulfur
       [] id = T.Phosphorus -> V.Phosphorus
       [] id = T.Fluorine -> V.Fluorine
       [] id = T.Chlorine -> V.Chlorine
       [] id = T.Bromine -> V.Bromine
       [] id = T.Iodine -> V.Iodine
       [] id = T.Magnesium -> V.Magnesium
       [] id = T.Manganese -> V.Manganese
       [] id = T.Zinc -> V.Zinc
       [] id = T.Calcium -> V.Calcium
       [] id = T.Iron -> V.Iron
       [] id = T.Boron -> V.Boron
       [] OTHER -> V.GenericAtom

Flag(b) == IF b THEN 1 ELSE 0

\* the feature vector of category id (positions are 1-based here)
Features(t, id, a) ==
  LET V == VType
      row == t.ityper.data[id]
  IN [i \in 1..V.NumTypes |->
        CASE i - 1 <= V.GenericAtom -> Flag(i - 1 = ElementBucket(id))
          [] i - 1 = V.AD_depth -> row.ad_depth
          [] i - 1 = V.AD_solvation -> row.ad_solvation
          [] i - 1 = V.AD_volume -> row.ad_volume
          [] i - 1 = V.XS_hydrophobe -> Flag(row.xs_hydrophobe)
          [] i - 1 = V.XS_donor -> Flag(row.xs_donor)
          [] i - 1 = V.XS_acceptor -> Flag(row.xs_acceptor)
          [] i - 1 = V.AD_heteroatom -> Flag(row.ad_heteroatom)
          [] OTHER -> a.charge]

\* virtual float get_type(OpenBabel::OBAtom& a, std::vector<float>& typ) const
\* the outcomes [result, typ]: a failure of the index typer is surfaced, with
\* the vector either untouched or already cleared
VectorGetTypeOutcomes(t, a, typ_in) ==
  LET t_r == GninaGetType(t.ityper, a)
  IN IF t_r.ok
       THEN {[result |-> Ok(t_r.val[2]), typ |-> Features(t, t_r.val[1], a)]}
       ELSE {[result |-> t_r, typ |-> typ_in],
             [result |-> t_r, typ |-> [i \in 1..VType.NumTypes |-> 0]]}

\* vectors a caller passes in
InVecs ==
  {[i \in 1..n |-> f] :
     n \in (0..MaxInLen) \cup {VType.NumTypes - 1, VType.NumTypes, VType.NumTypes + 1},
     f \in {0, 7}}

NewVectorTyper ==
  /\ typer = NoObj
  /\ \E usec \in Bools, d \in Tables :
       /\ typer' = GninaVectorTyper(GninaIndexTyper(usec, d))
       /\ ctor' = [op |-> "vector", arg |-> [usec |-> usec, d |-> d], result |-> Ok(<<>>)]
  /\ UNCHANGED <<mapper, call, pc, frame, typ>>

VectorGetTypeCall ==
  /\ call = NoCall
  /\ typer.kind = "vector"
  /\ \E a \in GninaAtoms, v \in InVecs :
       \E o \in VectorGetTypeOutcomes(typer, a, v) :
         /\ call' = [op |-> "vector_get_type", arg |-> [atom |-> a, typ |-> v],
                     result |-> o.result]
         /\ typ' = o.typ
  /\ UNCHANGED <<ctor, mapper, typer, pc, frame>>

VectorNumTypesCall ==
  /\ call = NoCall
  /\ typer.kind = "vector"
  /\ call' = [op |-> "num_types", arg |-> <<>>, result |-> Ok(VectorNumTypes(typer))]
  /\ UNCHANGED <<ctor, mapper, typer, pc, frame, typ>>

NextVector ==
  \/ Return
  \/ NewVectorTyper
  \/ VectorGetTypeCall
  \/ VectorNumTypesCall

SpecVector == Init /\ [][NextVector]_vars

(***************************************************************************)
(* Claims about the vector typer                                           *)
(***************************************************************************)
\* the output vector has 25 entries, one-hot in positions 0..16 and 0/1 in
\* positions 20..23
WellFormedVector(v) ==
  /\ Len(v) = 25
  /\ Cardinality({i \in 1..17 : v[i] = 1}) = 1
  /\ \A i \in 1..17 : v[i] \in {0, 1}
  /\ \A i \in 21..24 : v[i] \in {0, 1}

AtomIndexTypeMapper == [kind |-> "base"]

\* virtual unsigned num_types() const { return 0; }
BaseNumTypes(m) == 0

\* virtual int get_type(unsigned origt) const { return origt; }
BaseGetType(m, origt) == ToInt(origt)

\* virtual std::vector<std::string> get_type_names() const = 0;
PureVirtual == Err("PureVirtual")

MapperNumTypes(m) ==
  CASE m.kind = "file" -> FileNumTypes(m)
    [] m.kind = "subset" -> SubsetNumTypes(m)
    [] OTHER -> BaseNumTypes(m)

MapperGetType(m, origt) ==
  CASE m.kind = "file" -> FileGetType(m, origt)
    [] m.kind = "subset" -> Ok(SubsetGetType(m, origt))
    [] OTHER -> Ok(BaseGetType(m, origt))

\* FileAtomMapper overrides get_type_names; SubsetAtomMapper declares none
MapperGetTypeNames(m) ==
  CASE m.kind = "file" -> Ok(FileGetTypeNames(m))
    [] OTHER -> PureVirtual

(***************************************************************************)
(* MappedAtomIndexTyper                                                    *)
(***************************************************************************)
\* MappedAtomIndexTyper(const Mapper& map, const Typer& typr): mapper(map), typer(typr) {}
MappedAtomIndexTyper(map, typr) == [kind |-> "mapped", mapper |-> map, typer |-> typr]

\* virtual unsigned num_types() const { return mapper.num_types(); }
MappedNumTypes(t) == MapperNumTypes(t.mapper)

\* virtual std::vector<std::string> get_type_names() const { return mapper.get_type_names(); }
MappedGetTypeNames(t) == MapperGetTypeNames(t.mapper)

MappedRemapTwice(m, first) ==
  LET r == MapperGetType(m, ToUnsigned(first))
  IN IF r.ok THEN MapperGetType(m, ToUnsigned(r.val)) ELSE r

\* int ret = mapper.get_type(res_rad.first);
MappedRemap(m, first) == MapperGetType(m, ToUnsigned(first))

\* return make_pair(ret, res_rad.second);
MappedPair(ret, res_rad) == <<ret, res_rad[2]>>

RECURSIVE TyperGetType(_, _)
\* virtual std::pair<int,float> get_type(OpenBabel::OBAtom& a) const
MappedGetType(t, a) ==
  LET res_rad == TyperGetType(t.typer, a)
  IN IF ~res_rad.ok THEN res_rad
     ELSE LET ret == MappedRemap(t.mapper, res_rad.val[1])
          IN IF ~ret.ok THEN ret ELSE Ok(MappedPair(ret.val, res_rad.val))

\* get_type of any index typer
TyperGetType(t, a) ==
  CASE t.kind = "element" -> ElementGetType(t, a)
    [] t.kind = "gnina" -> GninaGetType(t, a)
    [] OTHER -> MappedGetType(t, a)

(***************************************************************************)
(* Specification of the composed typer                                     *)
(***************************************************************************)
MaxMapId == 2

MaxMapLen == 2

ComposedMappers ==
  {AtomIndexTypeMapper}
    \cup {SubsetAtomMapperFlat(map, c) : map \in SeqsUpTo(0..MaxMapId, MaxMapLen), c \in Bools}
    \cup {SubsetAtomMapperGrouped(<<<<0, 1>>, <<1, 2>>>>, c) : c \in Bools}
    \cup {FileAtomMapper(<<"a", "\n", "b">>, <<NameA, NameB>>),
          FileAtomMapper(<<"b", " ", "a">>, <<NameA, NameB, NameAB>>),
          FileAtomMapper(<<"\n", "b">>, <<NameA, NameB>>)}

ComposedTypers ==
  {ElementIndexTyper(maxe) : maxe \in (0..MaxCutoff) \cup {DefaultMaxe}}
    \cup {GninaIndexTyper(usec, DefaultData) : usec \in Bools}
    \cup {MappedAtomIndexTyper(SubsetAtomMapperFlat(<<1>>, c), ElementIndexTyper(MaxCutoff)) :
            c \in Bools}

ComposedAtoms ==
  {PlainAtom(z) : z \in SampleZ \cup {0, 3, DefaultMaxe}}
    \cup {Atom(z, TRUE, TRUE, TRUE, TRUE, TRUE, 1) : z \in {1, 6, 7, 8, 16}}

NewMapped ==
  /\ ctor = NoCall
  /\ \E map \in ComposedMappers, typr \in ComposedTypers :
       LET t == MappedAtomIndexTyper(map, typr)
       IN /\ mapper' = t.mapper
          /\ typer' = t.typer
          /\ ctor' = [op |-> "mapped", arg |-> [map |-> map, typr |-> typr],
                      result |-> Ok(<<>>)]
  /\ UNCHANGED <<call, pc, frame, typ>>

\* auto res_rad = typer.get_type(a);
MappedGetTypeTyper ==
  /\ ctor.op = "mapped"
  /\ call = NoCall
  /\ pc = "idle"
  /\ \E a \in ComposedAtoms :
       LET res_rad == TyperGetType(typer, a)
       IN IF res_rad.ok
            THEN /\ frame' = [atom |-> a, res_rad |-> res_rad.val, ret |-> 0]
                 /\ pc' = "remap"
                 /\ call' = call
            ELSE /\ call' = [op |-> "mapped_get_type", arg |-> a, result |-> res_rad]
                 /\ UNCHANGED <<pc, frame>>
  /\ UNCHANGED <<ctor, mapper, typer, typ>>

\* int ret = mapper.get_type(res_rad.first);
MappedGetTypeMapper ==
  /\ pc = "remap"
  /\ LET ret == MappedRemap(mapper, frame.res_rad[1])
     IN IF ret.ok
          THEN /\ frame' = [frame EXCEPT !.ret = ret.val]
               /\ pc' = "ret"
               /\ call' = call
          ELSE /\ call' = [op |-> "mapped_get_type", arg |-> frame.atom, result |-> ret]
               /\ pc' = "idle"
               /\ frame' = NoFrame
  /\ UNCHANGED <<ctor, mapper, typer, typ>>

\* return make_pair(ret, res_rad.second);
MappedGetTypeReturn ==
  /\ pc = "ret"
  /\ call' = [op |-> "mapped_get_type", arg |-> frame.atom,
              result |-> Ok(MappedPair(frame.ret, frame.res_rad))]
  /\ pc' = "idle"
  /\ frame' = NoFrame
  /\ UNCHANGED <<ctor, mapper, typer, typ>>

MappedNumTypesCall ==
  /\ call = NoCall
  /\ ctor.op = "mapped"
  /\ pc = "idle"
  /\ call' = [op |-> "mapped_num_types", arg |-> <<>>,
              result |-> Ok(MappedNumTypes(MappedAtomIndexTyper(mapper, typer)))]
  /\ UNCHANGED <<ctor, mapper, typer, pc, frame, typ>>

MappedGetTypeNamesCall ==
  /\ call = NoCall
  /\ ctor.op = "mapped"
  /\ pc = "idle"
  /\ call' = [op |-> "mapped_get_type_names", arg |-> <<>>,
              result |-> MappedGetTypeNames(MappedAtomIndexTyper(mapper, typer))]
  /\ UNCHANGED <<ctor, mapper, typer, pc, frame, typ>>

NextMapped ==
  \/ Return
  \/ NewMapped
  \/ MappedGetTypeTyper
  \/ MappedGetTypeMapper
  \/ MappedGetTypeReturn
  \/ MappedNumTypesCall
  \/ MappedGetTypeNamesCall
  \/ FileGetTypeCall
  \/ GetInfoCall

SpecMapped == Init /\ [][NextMapped]_vars

(***************************************************************************)
(* Claims about the composition                                            *)
(***************************************************************************)
\* C1: MappedAtomIndexTyper(M,T).get_type(a) is the pair of
\* M.get_type(T.get_type(a).first) and T.get_type(a).second: the category
\* goes through the mapper exactly once and the radius is unchanged, also
\* when the mapped category is -1; a failure of T or of M is the failure of
\* the composed call.
C1_Composition ==
  (ctor.op = "mapped" /\ call.op = "mapped_get_type") =>
    LET M == ctor.arg.map
        T == ctor.arg.typr
        tr == TyperGetType(T, call.arg)
    IN IF ~tr.ok THEN ~call.result.ok /\ call.result.err = tr.err
       ELSE LET mr == MapperGetType(M, ToUnsigned(tr.val[1]))
            IN IF ~mr.ok THEN ~call.result.ok /\ call.result.err = mr.err
               ELSE /\ call.result.ok
                    /\ call.result.val[1] = mr.val
                    /\ call.result.val[2] = tr.val[2]

C1_Witness ==
  /\ ctor.op = "mapped"
  /\ ctor.arg.map = SubsetAtomMapperFlat(<<2, 0>>, FALSE)
  /\ ctor.arg.typr = ElementIndexTyper(DefaultMaxe)
  /\ call.op = "mapped_get_type"
  /\ call.arg.z = 6
  /\ call.result.ok
  /\ call.result.val = <<-1, CovalentRad(6)>>

\* C8: the composed typer's get_type_names() is a sequence whose length is
\* num_types(), for every mapper, and both values are the mapper's.
C8_NamesLength ==
  ctor.op = "mapped" =>
    /\ call.op = "mapped_num_types" => call.result.val = MapperNumTypes(ctor.arg.map)
    /\ call.op = "mapped_get_type_names" =>
         /\ call.result.ok
         /\ Len(call.result.val) = MapperNumTypes(ctor.arg.map)

\* C10: a query outside the declared domain fails with IndexOutOfRange:
\* FileAtomMapper.get_type(i) with i >= number of original names, get_info(t)
\* with t outside [0, NumTypes), and a composed get_type whose wrapped typer
\* returns -1.
C10_IndexOutOfRange ==
  /\ (call.op = "get_type" /\ mapper.kind = "file"
        /\ call.arg >= Len(mapper.old_type_names)) =>
       (~call.result.ok /\ call.result.err = "IndexOutOfRange")
  /\ (call.op = "get_info" /\ call.arg \notin 0..27) =>
       (~call.result.ok /\ call.result.err = "IndexOutOfRange")
  /\ (call.op = "mapped_get_type" /\ TyperGetType(typer, call.arg).ok
        /\ TyperGetType(typer, call.arg).val[1] = -1) =>
       (~call.result.ok /\ call.result.err = "IndexOutOfRange")

====
